---- MODULE Spec2Model ----
(***************************************************************************)
(* RobotBridge of webapp/server/main.py: the two TCP transports, the three *)
(* background threads (_command_loop, _video_loop, _power_loop), the       *)
(* request threads calling connect / disconnect / send_command, and the    *)
(* RobotState record they share.                                           *)
(*                                                                         *)
(* Every thread is a program counter over the source lines that read or    *)
(* write shared memory (a label d94 is "about to execute line 94"); one    *)
(* step executes one such line.  Only `with self.lock:` blocks are atomic. *)
(*                                                                         *)
(* Text is a sequence of lexemes (strings): a tag such as "CMD_POWER", a   *)
(* separator "#", a blank " ", a newline "\n", or the decimal text of a    *)
(* number.  Numbers are in hundredths: the lexeme "800" is the text 8.00.  *)
(* Video bytes are integers.                                               *)
(***************************************************************************)
EXTENDS Integers, Sequences, FiniteSets, TLC

\* ------------------------------------------------------------------ bounds
MaxSessions == 2        \* connect() calls that get as far as creating sockets
MaxActive == 1          \* background threads that are ever scheduled; the others wait
MaxFrameLen == 2        \* largest frame length a video header announces
MaxWire == 7            \* bytes the peer sends on the video transport
VoltLo == 690           \* the voltage grid of CMD_POWER lines, in hundredths
VoltHi == 850
MaxLines == 2           \* newline-terminated status lines in a stream of StatusSpec

\* --------------------------------------------------------------- constants
RecvSize == 1024        \* recv(1024)
HeaderSize == 4         \* the length header of a video frame
ByteBase == 256         \* struct.unpack("<L", ...): four base-256 digits
VoltBase == 700         \* 7 V, in hundredths
VoltSpan == 140         \* 1.40 V, in hundredths
PercentScale == 100     \* the factor 100 of the percentage
PercentMax == 100       \* min(100, ...)

None == 0               \* a socket attribute that holds None
Absent == {}            \* an Optional field of RobotState that holds None
Some(v) == {v}
Value(o) == CHOOSE v \in o : TRUE

Sessions == 1 .. MaxSessions
Api == <<0, "api">>
Tasks == Sessions \X {"cmd", "vid", "pwr"}
Threads == {Api} \cup Tasks
Kind(t) == t[2]
CmdTask(s) == <<s, "cmd">>
VidTask(s) == <<s, "vid">>
PwrTask(s) == <<s, "pwr">>
SockIds == 1 .. (2 * MaxSessions)
CmdSock(s) == 2 * s - 1
VidSock(s) == 2 * s

Addresses == {<<"192.168.1.10">>}
Disconnected == <<"Disconnected">>
PowerPoll == <<"CMD_POWER", "\n">>
ApiCommands == {<<" ", "CMD_MOTOR", "#", "1500", "\n">>}
Whitespace == {" ", "\n"}

Min(a, b) == IF a < b THEN a ELSE b

VARIABLES
  running,          \* RobotBridge.running
  command_socket,   \* RobotBridge.command_socket: None or a socket
  video_socket,     \* RobotBridge.video_socket
  state,            \* RobotBridge.state, the RobotState record
  sock,             \* each socket object: "unborn", "created", "connected", "shutdown", "closed"
  wire,             \* what the peer sends on each socket, in total
  rpos,             \* how much of wire[s] recv() has returned so far
  nsess,            \* sessions so far: connect() calls that created sockets
  clock,            \* time.time(), a logical clock
  pc,               \* each thread's position
  ctx,              \* who called the disconnect() a thread is in
  result,           \* how a thread's last call (or the thread itself) ended
  call,             \* the operation the request thread is in, or was last in
  arg,              \* the argument of the call a thread is in: ip, or command
  buffer,           \* _command_loop: buffer
  line,             \* _handle_status_line: line
  rsock, rlen, rdata, rret, rval,   \* _recv_exact: sock, length, data, return address, returned value
  frame_length,     \* _video_loop: frame_length
  openFailed,       \* history: the connect() in progress or last ended saw a transport fail to open
  active,           \* the background threads that have been scheduled so far
  quiet,            \* history: a disconnect() has returned and no connect() has run since
  handled           \* history: the lines each thread has passed to _handle_status_line

vars == <<running, command_socket, video_socket, state, sock, wire, rpos, nsess,
          clock, pc, ctx, result, call, arg, buffer, line, rsock, rlen, rdata, rret,
          rval, frame_length, openFailed, quiet, active, handled>>

bridgeVars == <<running, command_socket, video_socket, state, sock>>
netVars == <<wire, rpos>>
cmdLocals == <<arg, buffer, line>>
vidLocals == <<rsock, rlen, rdata, rret, rval, frame_length>>
history == <<openFailed, quiet, handled>>

\* RobotState()
RobotState ==
  [connected |-> FALSE, ip |-> Absent, power_percent |-> Absent,
   ultrasonic_cm |-> Absent, light_left_v |-> Absent, light_right_v |-> Absent,
   last_command |-> Absent, last_status |-> Absent, last_frame |-> Absent,
   last_frame_time |-> Absent]

\* ---------------------------------------------------------------- sockets
\* socket.shutdown(SHUT_RDWR): an OSError (not connected, closed) is ignored by the caller
Shutdown(s) == IF sock[s] = "connected" THEN [sock EXCEPT ![s] = "shutdown"] ELSE sock
\* socket.close()
Close(s) == [sock EXCEPT ![s] = "closed"]

Remaining(s) == SubSeq(wire[s], rpos[s] + 1, Len(wire[s]))

\* socket.recv(n): what one call can give
RecvOutcomes(s, n) ==
  IF sock[s] = "connected"
  THEN {<<"timeout", 0>>, <<"oserror", 0>>}
       \cup (IF Remaining(s) = <<>> THEN {<<"eof", 0>>}
             ELSE {<<"data", k>> : k \in 1 .. Min(n, Len(Remaining(s)))})
  ELSE IF sock[s] = "shutdown" THEN {<<"eof", 0>>}
  ELSE IF sock[s] = "created" THEN {<<"eof", 0>>, <<"oserror", 0>>}
  ELSE {<<"oserror", 0>>}

\* socket.sendall(payload)
SendOutcomes(s) ==
  IF sock[s] = "connected" THEN {"ok", "OSError"} ELSE {"OSError"}

\* socket.connect((ip, port))
ConnectOutcomes(s) ==
  IF sock[s] = "created" THEN {"ok", "OSError"} ELSE {"OSError"}

\* ------------------------------------------------------------------- text
RECURSIVE LStrip(_)
LStrip(s) == IF s # <<>> /\ Head(s) \in Whitespace THEN LStrip(Tail(s)) ELSE s
RECURSIVE RStrip(_)
RStrip(s) ==
  IF s # <<>> /\ s[Len(s)] \in Whitespace THEN RStrip(SubSeq(s, 1, Len(s) - 1)) ELSE s
\* str.strip()
Strip(s) == RStrip(LStrip(s))

\* ------------------------------------------------------- exceptions, ends
\* Where thread t goes when exception e leaves function f uncaught by f.
\* _power_loop catches OSError and RuntimeError from send_command (125-126);
\* a request or a thread ends with anything else.
Caught(t, e) == Kind(t) = "pwr" /\ e \in {"OSError", "RuntimeError"}

\* The request thread goes on to answer the request; a background thread
\* stops ("ended"), and a caught exception leaves no trace.
Raise(t, f, e) ==
  /\ pc' = [pc EXCEPT ![t] = IF Caught(t, e) THEN "p119"
                             ELSE IF t = Api THEN "respond" ELSE "ended"]
  /\ result' = [result EXCEPT ![t] = IF Caught(t, e) THEN @ ELSE <<f, e>>]

Finish(t, f) ==
  /\ pc' = [pc EXCEPT ![t] = IF t = Api THEN "respond" ELSE "ended"]
  /\ result' = [result EXCEPT ![t] = <<f, "ok">>]

Goto(t, l) == pc' = [pc EXCEPT ![t] = l]

\* Thread t gets the processor for one step.  The scheduler may leave a
\* started thread waiting for as long as it likes; at most MaxActive
\* background threads ever get to run.
Turn(t) ==
  /\ t = Api \/ t \in active \/ Cardinality(active) < MaxActive
  /\ active' = active \cup ({t} \cap Tasks)

InConnect == call = "connect" /\ pc[Api] \notin {"idle", "respond"}

\* ------------------------------------------------------------- disconnect
\* What the thread does when its disconnect() returns.
DisconnectReturns(t) ==
  IF ctx[t] = "c65" THEN Goto(t, "c66") /\ UNCHANGED result
  ELSE IF ctx[t] = "c78" THEN Raise(t, "connect", "OSError")
  ELSE IF ctx[t] = "api" THEN Finish(t, "disconnect")
  ELSE Finish(t, ctx[t])

\* line 91
D91(t) ==
  /\ pc[t] = "d91"
  /\ Turn(t)
  /\ running' = FALSE
  /\ Goto(t, "d92")
  /\ UNCHANGED <<command_socket, video_socket, state, sock, netVars, nsess, clock,
                 ctx, result, call, cmdLocals, vidLocals, history>>

\* line 92 without the test: the socket is shut down whether set or not
D92NoCheck(t) ==
  /\ pc[t] = "d92"
  /\ Turn(t)
  /\ Goto(t, "d94")
  /\ UNCHANGED <<bridgeVars, netVars, nsess, clock, ctx, result, call, cmdLocals,
                 vidLocals, history>>

\* line 92
D92(t) ==
  /\ pc[t] = "d92"
  /\ Turn(t)
  /\ Goto(t, IF command_socket # None THEN "d94" ELSE "d98")
  /\ UNCHANGED <<bridgeVars, netVars, nsess, clock, ctx, result, call, cmdLocals,
                 vidLocals, history>>

\* lines 93-96: self.command_socket is read again; on None the attribute
\* lookup raises AttributeError, which `except OSError` does not catch
D94(t) ==
  /\ pc[t] = "d94"
  /\ Turn(t)
  /\ IF command_socket = None
     THEN Raise(t, "disconnect", "AttributeError") /\ UNCHANGED sock
     ELSE sock' = Shutdown(command_socket) /\ Goto(t, "d97") /\ UNCHANGED result
  /\ UNCHANGED <<running, command_socket, video_socket, state, netVars, nsess, clock,
                 ctx, call, cmdLocals, vidLocals, history>>

\* line 97
D97(t) ==
  /\ pc[t] = "d97"
  /\ Turn(t)
  /\ IF command_socket = None
     THEN Raise(t, "disconnect", "AttributeError") /\ UNCHANGED sock
     ELSE sock' = Close(command_socket) /\ Goto(t, "d98") /\ UNCHANGED result
  /\ UNCHANGED <<running, command_socket, video_socket, state, netVars, nsess, clock,
                 ctx, call, cmdLocals, vidLocals, history>>

\* line 98
D98(t) ==
  /\ pc[t] = "d98"
  /\ Turn(t)
  /\ Goto(t, IF video_socket # None THEN "d100" ELSE "d104")
  /\ UNCHANGED <<bridgeVars, netVars, nsess, clock, ctx, result, call, cmdLocals,
                 vidLocals, history>>

\* lines 99-102
D100(t) ==
  /\ pc[t] = "d100"
  /\ Turn(t)
  /\ IF video_socket = None
     THEN Raise(t, "disconnect", "AttributeError") /\ UNCHANGED sock
     ELSE sock' = Shutdown(video_socket) /\ Goto(t, "d103") /\ UNCHANGED result
  /\ UNCHANGED <<running, command_socket, video_socket, state, netVars, nsess, clock,
                 ctx, call, cmdLocals, vidLocals, history>>

\* line 103
D103(t) ==
  /\ pc[t] = "d103"
  /\ Turn(t)
  /\ IF video_socket = None
     THEN Raise(t, "disconnect", "AttributeError") /\ UNCHANGED sock
     ELSE sock' = Close(video_socket) /\ Goto(t, "d104") /\ UNCHANGED result
  /\ UNCHANGED <<running, command_socket, video_socket, state, netVars, nsess, clock,
                 ctx, call, cmdLocals, vidLocals, history>>

\* line 104
D104(t) ==
  /\ pc[t] = "d104"
  /\ Turn(t)
  /\ command_socket' = None
  /\ Goto(t, "d105")
  /\ UNCHANGED <<running, video_socket, state, sock, netVars, nsess, clock, ctx,
                 result, call, cmdLocals, vidLocals, history>>

\* line 105
D105(t) ==
  /\ pc[t] = "d105"
  /\ Turn(t)
  /\ video_socket' = None
  /\ Goto(t, "d106")
  /\ UNCHANGED <<running, command_socket, state, sock, netVars, nsess, clock, ctx,
                 result, call, cmdLocals, vidLocals, history>>

\* lines 106-108 with the whole RobotState reset
DisconnectedStateReset(st) ==
  [RobotState EXCEPT !.last_status = Some(Disconnected)]

\* the state disconnect() leaves in its critical section
DisconnectedState(st) ==
  [st EXCEPT !.connected = FALSE, !.last_status = Some(Disconnected)]

\* lines 106-108, and the return
D106(t) ==
  /\ pc[t] = "d106"
  /\ Turn(t)
  /\ state' = DisconnectedState(state)
  /\ DisconnectReturns(t)
  /\ quiet' = ~InConnect
  /\ UNCHANGED <<running, command_socket, video_socket, sock, netVars, nsess, clock,
                 ctx, call, cmdLocals, vidLocals, openFailed, handled>>

\* a thread calls self.disconnect()
CallDisconnect(t, from) ==
  /\ Goto(t, "d91")
  /\ ctx' = [ctx EXCEPT ![t] = from]

\* ---------------------------------------------------------------- connect
\* POST /api/connect -> bridge.connect(ip); line 65
ApiConnect(ip) ==
  /\ pc[Api] = "idle"
  /\ Turn(Api)
  /\ nsess < MaxSessions
  /\ call' = "connect"
  /\ arg' = [arg EXCEPT ![Api] = ip]
  /\ CallDisconnect(Api, "c65")
  /\ result' = [result EXCEPT ![Api] = <<"", "none">>]
  /\ openFailed' = FALSE
  /\ quiet' = FALSE
  /\ UNCHANGED <<bridgeVars, netVars, nsess, clock, buffer, line, vidLocals, handled>>

\* lines 66-69
C66 ==
  /\ pc[Api] = "c66"
  /\ Turn(Api)
  /\ state' = [state EXCEPT !.ip = Some(arg[Api]), !.connected = FALSE,
                            !.last_status = Absent]
  /\ Goto(Api, "c70")
  /\ UNCHANGED <<running, command_socket, video_socket, sock, netVars, nsess, clock,
                 ctx, result, call, cmdLocals, vidLocals, history>>

\* line 70: a new socket object
C70 ==
  /\ pc[Api] = "c70"
  /\ Turn(Api)
  /\ nsess' = nsess + 1
  /\ command_socket' = CmdSock(nsess + 1)
  /\ sock' = [sock EXCEPT ![CmdSock(nsess + 1)] = "created"]
  /\ Goto(Api, "c71")
  /\ UNCHANGED <<running, video_socket, state, netVars, clock, ctx, result, call,
                 cmdLocals, vidLocals, history>>

\* line 71
C71 ==
  /\ pc[Api] = "c71"
  /\ Turn(Api)
  /\ video_socket' = VidSock(nsess)
  /\ sock' = [sock EXCEPT ![VidSock(nsess)] = "created"]
  /\ Goto(Api, "c72")
  /\ UNCHANGED <<running, command_socket, state, netVars, nsess, clock, ctx, result,
                 call, cmdLocals, vidLocals, history>>

\* socket.settimeout, outside the try: None has no settimeout (AttributeError),
\* a closed socket raises OSError; neither is followed by a rollback
SetTimeout(s, next) ==
  IF s = None THEN Raise(Api, "connect", "AttributeError")
  ELSE IF sock[s] = "closed" THEN Raise(Api, "connect", "OSError")
  ELSE Goto(Api, next) /\ UNCHANGED result

\* line 72
C72 ==
  /\ pc[Api] = "c72"
  /\ Turn(Api)
  /\ SetTimeout(command_socket, "c73")
  /\ UNCHANGED <<bridgeVars, netVars, nsess, clock, ctx, call, cmdLocals, vidLocals,
                 history>>

\* line 73
C73 ==
  /\ pc[Api] = "c73"
  /\ Turn(Api)
  /\ SetTimeout(video_socket, "c75")
  /\ UNCHANGED <<bridgeVars, netVars, nsess, clock, ctx, call, cmdLocals, vidLocals,
                 history>>

\* lines 74-79: socket.connect inside the try; OSError goes to the rollback
\* of line 78, an AttributeError (None) leaves connect() at once
Open(s, next) ==
  IF s = None
  THEN /\ Raise(Api, "connect", "AttributeError")
       /\ UNCHANGED <<sock, ctx, openFailed>>
  ELSE \E o \in ConnectOutcomes(s) :
         IF o = "ok"
         THEN /\ sock' = [sock EXCEPT ![s] = "connected"]
              /\ Goto(Api, next)
              /\ UNCHANGED <<result, ctx, openFailed>>
         ELSE /\ openFailed' = TRUE
              /\ CallDisconnect(Api, "c78")
              /\ UNCHANGED <<sock, result>>

\* line 75
C75 ==
  /\ pc[Api] = "c75"
  /\ Turn(Api)
  /\ Open(command_socket, "c76")
  /\ UNCHANGED <<running, command_socket, video_socket, state, netVars, nsess, clock,
                 call, cmdLocals, vidLocals, quiet, handled>>

\* line 76
C76 ==
  /\ pc[Api] = "c76"
  /\ Turn(Api)
  /\ Open(video_socket, "c80")
  /\ UNCHANGED <<running, command_socket, video_socket, state, netVars, nsess, clock,
                 call, cmdLocals, vidLocals, quiet, handled>>

\* lines 80-81
C80 ==
  /\ pc[Api] = "c80"
  /\ Turn(Api)
  /\ state' = [state EXCEPT !.connected = TRUE]
  /\ Goto(Api, "c82")
  /\ UNCHANGED <<running, command_socket, video_socket, sock, netVars, nsess, clock,
                 ctx, result, call, cmdLocals, vidLocals, history>>

\* line 82
C82 ==
  /\ pc[Api] = "c82"
  /\ Turn(Api)
  /\ running' = TRUE
  /\ Goto(Api, "c86")
  /\ UNCHANGED <<command_socket, video_socket, state, sock, netVars, nsess, clock,
                 ctx, result, call, cmdLocals, vidLocals, history>>

\* lines 83-88: the three threads are created and started, and connect()
\* returns.  A started thread does nothing until it is scheduled, so the
\* three start() calls are one step.
C86 ==
  /\ pc[Api] = "c86"
  /\ Turn(Api)
  /\ pc' = [pc EXCEPT ![Api] = "respond", ![CmdTask(nsess)] = "r130",
                      ![VidTask(nsess)] = "v197", ![PwrTask(nsess)] = "p119"]
  /\ result' = [result EXCEPT ![Api] = <<"connect", "ok">>]
  /\ UNCHANGED <<bridgeVars, netVars, nsess, clock, ctx, call, cmdLocals, vidLocals,
                 history>>

\* POST /api/disconnect -> bridge.disconnect()
ApiDisconnect ==
  /\ pc[Api] = "idle"
  /\ Turn(Api)
  /\ call' = "disconnect"
  /\ CallDisconnect(Api, "api")
  /\ result' = [result EXCEPT ![Api] = <<"", "none">>]
  /\ UNCHANGED <<bridgeVars, netVars, nsess, clock, cmdLocals, vidLocals, history>>

\* the route handlers of lines 224-247 answer the request: the call is over
\* (an OSError becomes a 502, a RuntimeError a 400, anything else a 500)
Respond ==
  /\ pc[Api] = "respond"
  /\ Turn(Api)
  /\ Goto(Api, "idle")
  /\ call' = "none"
  /\ result' = [result EXCEPT ![Api] = <<"", "none">>]
  /\ arg' = [arg EXCEPT ![Api] = <<>>]
  /\ ctx' = [ctx EXCEPT ![Api] = ""]
  /\ openFailed' = FALSE
  /\ UNCHANGED <<bridgeVars, netVars, nsess, clock, buffer, line, vidLocals, quiet,
                 handled>>

\* a background thread whose target returned or raised is gone, with its locals
Terminate(t) ==
  /\ pc[t] = "ended"
  /\ Turn(t)
  /\ Goto(t, "done")
  /\ result' = [result EXCEPT ![t] = <<"", "none">>]
  /\ arg' = [arg EXCEPT ![t] = <<>>]
  /\ ctx' = [ctx EXCEPT ![t] = ""]
  /\ buffer' = [buffer EXCEPT ![t] = <<>>]
  /\ line' = [line EXCEPT ![t] = <<>>]
  /\ rsock' = [rsock EXCEPT ![t] = None]
  /\ rlen' = [rlen EXCEPT ![t] = 0]
  /\ rdata' = [rdata EXCEPT ![t] = <<>>]
  /\ rret' = [rret EXCEPT ![t] = ""]
  /\ rval' = [rval EXCEPT ![t] = Absent]
  /\ frame_length' = [frame_length EXCEPT ![t] = 0]
  /\ UNCHANGED <<bridgeVars, netVars, nsess, clock, call, history>>

\* ----------------------------------------------------------- send_command
\* POST /api/command -> bridge.send_command(command)
ApiSend(command) ==
  /\ pc[Api] = "idle"
  /\ Turn(Api)
  /\ call' = "send_command"
  /\ arg' = [arg EXCEPT ![Api] = command]
  /\ Goto(Api, "s111")
  /\ result' = [result EXCEPT ![Api] = <<"", "none">>]
  /\ UNCHANGED <<bridgeVars, netVars, nsess, clock, ctx, buffer, line, vidLocals,
                 history>>

\* line 111, left operand: not self.command_socket
S111(t) ==
  /\ pc[t] = "s111"
  /\ Turn(t)
  /\ IF command_socket = None
     THEN Raise(t, "send_command", "RuntimeError")
     ELSE Goto(t, "s111b") /\ UNCHANGED result
  /\ UNCHANGED <<bridgeVars, netVars, nsess, clock, ctx, call, cmdLocals, vidLocals,
                 history>>

\* line 111, right operand: not self.state.connected
S111b(t) ==
  /\ pc[t] = "s111b"
  /\ Turn(t)
  /\ IF ~state.connected
     THEN Raise(t, "send_command", "RuntimeError")
     ELSE Goto(t, "s114") /\ UNCHANGED result
  /\ UNCHANGED <<bridgeVars, netVars, nsess, clock, ctx, call, cmdLocals, vidLocals,
                 history>>

\* lines 113-114: self.command_socket is read again
S114(t) ==
  /\ pc[t] = "s114"
  /\ Turn(t)
  /\ IF command_socket = None
     THEN Raise(t, "send_command", "AttributeError")
     ELSE \E o \in SendOutcomes(command_socket) :
            IF o = "ok" THEN Goto(t, "s115") /\ UNCHANGED result
            ELSE Raise(t, "send_command", o)
  /\ UNCHANGED <<bridgeVars, netVars, nsess, clock, ctx, call, cmdLocals, vidLocals,
                 history>>

\* lines 115-116 without the strip()
S115NoStrip(t) ==
  /\ pc[t] = "s115"
  /\ Turn(t)
  /\ state' = [state EXCEPT !.last_command = Some(arg[t])]
  /\ IF t = Api THEN Finish(t, "send_command")
     ELSE Goto(t, "p119") /\ UNCHANGED result
  /\ UNCHANGED <<running, command_socket, video_socket, sock, netVars, nsess, clock,
                 ctx, call, cmdLocals, vidLocals, history>>

\* lines 115-116, and the return
S115(t) ==
  /\ pc[t] = "s115"
  /\ Turn(t)
  /\ state' = [state EXCEPT !.last_command = Some(Strip(arg[t]))]
  /\ IF t = Api THEN Finish(t, "send_command")
     ELSE Goto(t, "p119") /\ UNCHANGED result
  /\ UNCHANGED <<running, command_socket, video_socket, sock, netVars, nsess, clock,
                 ctx, call, cmdLocals, vidLocals, history>>

\* ------------------------------------------------------------ _power_loop
\* line 119
P119(t) ==
  /\ pc[t] = "p119"
  /\ Turn(t)
  /\ IF running THEN Goto(t, "p121") /\ UNCHANGED result
     ELSE Finish(t, "_power_loop")
  /\ UNCHANGED <<bridgeVars, netVars, nsess, clock, ctx, call, cmdLocals, vidLocals,
                 history>>

\* lines 120-124: after the sleep
P121(t) ==
  /\ pc[t] = "p121"
  /\ Turn(t)
  /\ IF ~running
     THEN Finish(t, "_power_loop") /\ UNCHANGED arg
     ELSE /\ arg' = [arg EXCEPT ![t] = PowerPoll]
          /\ Goto(t, "s111")
          /\ UNCHANGED result
  /\ UNCHANGED <<bridgeVars, netVars, nsess, clock, ctx, call, buffer, line,
                 vidLocals, history>>
\* ---------------------------------------------------- _handle_status_line
\* the numbers a field can spell: the voltage grid and values far outside it
Extremes == {-500, 0, 100, 2350, 5000}
Numbers == (VoltLo .. VoltHi) \cup Extremes

RECURSIVE Find(_, _, _)
\* the first index >= i of lexeme c in s, or 0
Find(s, c, i) == IF i > Len(s) THEN 0 ELSE IF s[i] = c THEN i ELSE Find(s, c, i + 1)

RECURSIVE Split(_, _)
\* str.split(sep)
Split(s, sep) ==
  LET i == Find(s, sep, 1)
  IN IF i = 0 THEN <<s>>
     ELSE <<SubSeq(s, 1, i - 1)>> \o Split(SubSeq(s, i + 1, Len(s)), sep)

\* float(text): the number (in hundredths) the text spells, blanks around it
\* ignored; Absent stands for ValueError
Float(text) ==
  LET x == Strip(text)
  IN IF Len(x) = 1 /\ \E n \in Numbers : ToString(n) = x[1]
     THEN Some(CHOOSE n \in Numbers : ToString(n) = x[1])
     ELSE Absent

\* The voltages v (hundredths) between 7.00 and 8.40 at which ((v - 7) / 1.40) * 100
\* is an integer k in exact arithmetic but evaluates in IEEE-754 doubles to a
\* value just below k.  Everywhere else on the hundredths grid the double and
\* the exact value have the same integer part.
FloatUndershoot == {714, 735, 756, 763, 777, 812, 819, 826}

\* line 178 with round() in the place of int()
PowerPercentRound(v) ==
  LET num == PercentScale * (v - VoltBase)
      den == VoltSpan
  IN IF num >= PercentMax * den THEN PercentMax
     ELSE IF num <= 0 THEN 0
     ELSE (2 * num + den) \div (2 * den)

\* line 178 without max(0, ...): int() truncates a negative value towards zero
PowerPercentNoFloor(v) ==
  LET num == PercentScale * (v - VoltBase)
      den == VoltSpan
  IN IF num >= PercentMax * den THEN PercentMax
     ELSE IF num <= 0 THEN 0 - ((0 - num) \div den)
     ELSE IF v \in FloatUndershoot THEN (num \div den) - 1
     ELSE num \div den

\* line 178: int(max(0, min(100, ((value - 7) / 1.40) * 100))) for value = v / 100,
\* that is 100 (v - 700) / 140 clamped; int() truncates
PowerPercent(v) ==
  LET num == PercentScale * (v - VoltBase)
      den == VoltSpan
  IN IF num >= PercentMax * den THEN PercentMax
     ELSE IF num <= 0 THEN 0
     ELSE IF v \in FloatUndershoot THEN (num \div den) - 1
     ELSE num \div den

\* lines 151-153
H153(t) ==
  /\ pc[t] = "h153"
  /\ Turn(t)
  /\ state' = [state EXCEPT !.last_status = Some(line[t])]
  /\ Goto(t, "h154")
  /\ UNCHANGED <<running, command_socket, video_socket, sock, netVars, nsess, clock,
                 ctx, result, call, cmdLocals, vidLocals, history>>

\* lines 154-180 with the left light value stored as soon as it has parsed
HandledLeftFirst(st, l) ==
  LET parts == Split(l, "#")
      cmd == parts[1]
  IN IF cmd = <<"CMD_SONIC">> /\ Len(parts) > 1
     THEN IF Float(parts[2]) = Absent THEN st
          ELSE [st EXCEPT !.ultrasonic_cm = Float(parts[2])]
     ELSE IF cmd = <<"CMD_LIGHT">> /\ Len(parts) > 2
     THEN IF Float(parts[2]) = Absent THEN st
          ELSE IF Float(parts[3]) = Absent
          THEN [st EXCEPT !.light_left_v = Float(parts[2])]
          ELSE [st EXCEPT !.light_left_v = Float(parts[2]),
                          !.light_right_v = Float(parts[3])]
     ELSE IF cmd = <<"CMD_POWER">> /\ Len(parts) > 1
     THEN IF Float(parts[2]) = Absent THEN st
          ELSE [st EXCEPT !.power_percent = Some(PowerPercent(Value(Float(parts[2]))))]
     ELSE st

\* lines 154-180 with the addressed field cleared when its text does not parse
HandledClearsOnError(st, l) ==
  LET parts == Split(l, "#")
      cmd == parts[1]
  IN IF cmd = <<"CMD_SONIC">> /\ Len(parts) > 1
     THEN [st EXCEPT !.ultrasonic_cm = Float(parts[2])]
     ELSE IF cmd = <<"CMD_LIGHT">> /\ Len(parts) > 2
     THEN IF Float(parts[2]) = Absent \/ Float(parts[3]) = Absent THEN st
          ELSE [st EXCEPT !.light_left_v = Float(parts[2]),
                          !.light_right_v = Float(parts[3])]
     ELSE IF cmd = <<"CMD_POWER">> /\ Len(parts) > 1
     THEN IF Float(parts[2]) = Absent THEN st
          ELSE [st EXCEPT !.power_percent = Some(PowerPercent(Value(Float(parts[2]))))]
     ELSE st

\* the RobotState after lines 154-180 on the line l
Handled(st, l) ==
  LET parts == Split(l, "#")
      cmd == parts[1]
  IN IF cmd = <<"CMD_SONIC">> /\ Len(parts) > 1
     THEN IF Float(parts[2]) = Absent THEN st
          ELSE [st EXCEPT !.ultrasonic_cm = Float(parts[2])]
     ELSE IF cmd = <<"CMD_LIGHT">> /\ Len(parts) > 2
     THEN IF Float(parts[2]) = Absent \/ Float(parts[3]) = Absent THEN st
          ELSE [st EXCEPT !.light_left_v = Float(parts[2]),
                          !.light_right_v = Float(parts[3])]
     ELSE IF cmd = <<"CMD_POWER">> /\ Len(parts) > 1
     THEN IF Float(parts[2]) = Absent THEN st
          ELSE [st EXCEPT !.power_percent = Some(PowerPercent(Value(Float(parts[2]))))]
     ELSE st

\* lines 154-180, and the return into the loop of line 142
H154(t) ==
  /\ pc[t] = "h154"
  /\ Turn(t)
  /\ state' = Handled(state, line[t])
  /\ Goto(t, "r142")
  /\ UNCHANGED <<running, command_socket, video_socket, sock, netVars, nsess, clock,
                 ctx, result, call, cmdLocals, vidLocals, history>>

\* ---------------------------------------------------------- _command_loop
\* bytes.decode("utf-8", errors="ignore") of one chunk.  An ASCII lexeme
\* decodes to itself; the byte pair C3 A9 decodes to the letter e-acute; a
\* byte that starts or continues no complete character of the chunk (FF, a C3
\* not followed by A9, an A9 not preceded by C3) is dropped.
Undecodable == {"\\xff", "\\xc3", "\\xa9"}
RECURSIVE Decode(_)
Decode(bytes) ==
  IF bytes = <<>> THEN <<>>
  ELSE IF Len(bytes) > 1 /\ bytes[1] = "\\xc3" /\ bytes[2] = "\\xa9"
  THEN <<"e-acute">> \o Decode(SubSeq(bytes, 3, Len(bytes)))
  ELSE IF bytes[1] \in Undecodable THEN Decode(Tail(bytes))
  ELSE <<bytes[1]>> \o Decode(Tail(bytes))

\* line 130
R130(t) ==
  /\ pc[t] = "r130"
  /\ Turn(t)
  /\ IF running THEN Goto(t, "r131") /\ UNCHANGED ctx
     ELSE CallDisconnect(t, "_command_loop")
  /\ UNCHANGED <<bridgeVars, netVars, nsess, clock, result, call, cmdLocals,
                 vidLocals, history>>

\* lines 131-132
R131(t) ==
  /\ pc[t] = "r131"
  /\ Turn(t)
  /\ IF command_socket # None THEN Goto(t, "r134") /\ UNCHANGED ctx
     ELSE CallDisconnect(t, "_command_loop")
  /\ UNCHANGED <<bridgeVars, netVars, nsess, clock, result, call, cmdLocals,
                 vidLocals, history>>

\* lines 133-141: self.command_socket is read again, then recv(1024)
R134(t) ==
  /\ pc[t] = "r134"
  /\ Turn(t)
  /\ IF command_socket = None
     THEN /\ Raise(t, "_command_loop", "AttributeError")
          /\ UNCHANGED <<ctx, rpos, buffer>>
     ELSE \E o \in RecvOutcomes(command_socket, RecvSize) :
            IF o[1] = "timeout"
            THEN Goto(t, "r130") /\ UNCHANGED <<result, ctx, rpos, buffer>>
            ELSE IF o[1] = "oserror"
            THEN CallDisconnect(t, "_command_loop") /\ UNCHANGED <<result, rpos, buffer>>
            ELSE IF o[1] = "eof"
            THEN Goto(t, "r139") /\ UNCHANGED <<result, ctx, rpos, buffer>>
            ELSE /\ buffer' = [buffer EXCEPT ![t] =
                      @ \o Decode(SubSeq(Remaining(command_socket), 1, o[2]))]
                 /\ rpos' = [rpos EXCEPT ![command_socket] = @ + o[2]]
                 /\ Goto(t, "r142")
                 /\ UNCHANGED <<result, ctx>>
  /\ UNCHANGED <<bridgeVars, wire, nsess, clock, call, arg, line, vidLocals,
                 history>>

\* lines 139-140 with `continue` in the place of `break`
R139Continue(t) ==
  /\ pc[t] = "r139"
  /\ Turn(t)
  /\ Goto(t, "r130")
  /\ UNCHANGED <<bridgeVars, netVars, nsess, clock, ctx, result, call, cmdLocals,
                 vidLocals, history>>

\* lines 139-140: recv returned b"", the peer has closed
R139(t) ==
  /\ pc[t] = "r139"
  /\ Turn(t)
  /\ CallDisconnect(t, "_command_loop")
  /\ UNCHANGED <<bridgeVars, netVars, nsess, clock, result, call, cmdLocals,
                 vidLocals, history>>

\* lines 142-147
R142(t) ==
  /\ pc[t] = "r142"
  /\ Turn(t)
  /\ LET i == Find(buffer[t], "\n", 1)
         l == Strip(SubSeq(buffer[t], 1, i - 1))
     IN IF i = 0 THEN Goto(t, "r130") /\ UNCHANGED <<buffer, line, handled>>
        ELSE /\ buffer' = [buffer EXCEPT ![t] = SubSeq(@, i + 1, Len(@))]
             /\ IF l = <<>> THEN Goto(t, "r142") /\ UNCHANGED <<line, handled>>
                ELSE /\ Goto(t, "h153")
                     /\ line' = [line EXCEPT ![t] = l]
                     /\ handled' = [handled EXCEPT ![t] = Append(@, l)]
  /\ UNCHANGED <<bridgeVars, netVars, nsess, clock, ctx, result, call, arg,
                 vidLocals, openFailed, quiet>>

\* ------------------------------------------------------------ _recv_exact
\* a call of self._recv_exact(self.video_socket, length), coming back at ret
CallRecvExact(t, length, ret) ==
  /\ rsock' = [rsock EXCEPT ![t] = video_socket]
  /\ rlen' = [rlen EXCEPT ![t] = length]
  /\ rdata' = [rdata EXCEPT ![t] = <<>>]
  /\ rret' = [rret EXCEPT ![t] = ret]
  /\ Goto(t, "x184")

\* _recv_exact returns v: its frame is gone, the caller gets v
Return(t, v) ==
  /\ rval' = [rval EXCEPT ![t] = v]
  /\ rsock' = [rsock EXCEPT ![t] = None]
  /\ rlen' = [rlen EXCEPT ![t] = 0]
  /\ rdata' = [rdata EXCEPT ![t] = <<>>]
  /\ rret' = [rret EXCEPT ![t] = ""]
  /\ Goto(t, rret[t])

\* line 184, and line 194
X184(t) ==
  /\ pc[t] = "x184"
  /\ Turn(t)
  /\ IF Len(rdata[t]) < rlen[t] /\ running
     THEN Goto(t, "x186") /\ UNCHANGED <<rval, rsock, rlen, rdata, rret>>
     ELSE Return(t, Some(rdata[t]))
  /\ UNCHANGED <<bridgeVars, netVars, nsess, clock, ctx, result, call, cmdLocals,
                 frame_length, history>>

\* lines 185-193
X186(t) ==
  /\ pc[t] = "x186"
  /\ Turn(t)
  /\ IF rsock[t] = None
     THEN /\ Raise(t, "_recv_exact", "AttributeError")
          /\ UNCHANGED <<rpos, rsock, rlen, rdata, rret, rval>>
     ELSE \E o \in RecvOutcomes(rsock[t], rlen[t] - Len(rdata[t])) :
            IF o[1] = "timeout"
            THEN /\ Goto(t, "x184")
                 /\ UNCHANGED <<result, rpos, rsock, rlen, rdata, rret, rval>>
            ELSE IF o[1] = "oserror"
            THEN Return(t, Absent) /\ UNCHANGED <<result, rpos>>
            ELSE IF o[1] = "eof"
            THEN /\ Goto(t, "x191")
                 /\ UNCHANGED <<result, rpos, rsock, rlen, rdata, rret, rval>>
            ELSE /\ rdata' = [rdata EXCEPT ![t] =
                      @ \o SubSeq(Remaining(rsock[t]), 1, o[2])]
                 /\ rpos' = [rpos EXCEPT ![rsock[t]] = @ + o[2]]
                 /\ Goto(t, "x184")
                 /\ UNCHANGED <<result, rsock, rlen, rret, rval>>
  /\ UNCHANGED <<bridgeVars, wire, nsess, clock, ctx, call, cmdLocals, frame_length,
                 history>>

\* lines 191-192: recv returned b"", the peer has closed
X191(t) ==
  /\ pc[t] = "x191"
  /\ Turn(t)
  /\ Return(t, Absent)
  /\ UNCHANGED <<bridgeVars, netVars, nsess, clock, ctx, result, call, cmdLocals,
                 frame_length, history>>

\* ------------------------------------------------------------ _video_loop
\* struct.unpack("<L", header)[0]
Unpack(h) ==
  h[1] + ByteBase * h[2] + ByteBase * ByteBase * h[3]
       + ByteBase * ByteBase * ByteBase * h[4]

\* `not x` for x an Optional[bytes]: None or b""
Falsy(v) == v = Absent \/ Value(v) = <<>>

\* line 197
V197(t) ==
  /\ pc[t] = "v197"
  /\ Turn(t)
  /\ IF running THEN Goto(t, "v198") /\ UNCHANGED ctx
     ELSE CallDisconnect(t, "_video_loop")
  /\ UNCHANGED <<bridgeVars, netVars, nsess, clock, result, call, cmdLocals,
                 vidLocals, history>>

\* lines 198-199
V198(t) ==
  /\ pc[t] = "v198"
  /\ Turn(t)
  /\ IF video_socket # None THEN Goto(t, "v200") /\ UNCHANGED ctx
     ELSE CallDisconnect(t, "_video_loop")
  /\ UNCHANGED <<bridgeVars, netVars, nsess, clock, result, call, cmdLocals,
                 vidLocals, history>>

\* line 200
V200(t) ==
  /\ pc[t] = "v200"
  /\ Turn(t)
  /\ CallRecvExact(t, HeaderSize, "v201")
  /\ UNCHANGED <<bridgeVars, netVars, nsess, clock, ctx, result, call, cmdLocals,
                 rval, frame_length, history>>

\* lines 201-205: a header shorter than 4 bytes makes struct.unpack raise
V201(t) ==
  /\ pc[t] = "v201"
  /\ Turn(t)
  /\ IF Falsy(rval[t])
     THEN CallDisconnect(t, "_video_loop") /\ UNCHANGED <<result, frame_length>>
     ELSE IF Len(Value(rval[t])) # HeaderSize
     THEN Raise(t, "_video_loop", "struct.error") /\ UNCHANGED <<ctx, frame_length>>
     ELSE /\ frame_length' = [frame_length EXCEPT ![t] = Unpack(Value(rval[t]))]
          /\ Goto(t, IF Unpack(Value(rval[t])) <= 0 THEN "v197" ELSE "v206")
          /\ UNCHANGED <<result, ctx>>
  /\ rval' = [rval EXCEPT ![t] = Absent]
  /\ UNCHANGED <<bridgeVars, netVars, nsess, clock, call, cmdLocals, rsock, rlen,
                 rdata, rret, history>>

\* line 206
V206(t) ==
  /\ pc[t] = "v206"
  /\ Turn(t)
  /\ CallRecvExact(t, frame_length[t], "v207")
  /\ UNCHANGED <<bridgeVars, netVars, nsess, clock, ctx, result, call, cmdLocals,
                 rval, frame_length, history>>

\* lines 207-211 without line 211: the frame is stored, its time is not
V207FrameOnly(t) ==
  /\ pc[t] = "v207"
  /\ Turn(t)
  /\ IF Falsy(rval[t])
     THEN CallDisconnect(t, "_video_loop") /\ UNCHANGED <<state, clock>>
     ELSE /\ state' = [state EXCEPT !.last_frame = rval[t]]
          /\ clock' = clock + 1
          /\ Goto(t, "v197")
          /\ UNCHANGED ctx
  /\ rval' = [rval EXCEPT ![t] = Absent]
  /\ UNCHANGED <<running, command_socket, video_socket, sock, netVars, nsess,
                 result, call, cmdLocals, rsock, rlen, rdata, rret, frame_length,
                 history>>

\* lines 207-211
V207(t) ==
  /\ pc[t] = "v207"
  /\ Turn(t)
  /\ IF Falsy(rval[t])
     THEN CallDisconnect(t, "_video_loop") /\ UNCHANGED <<state, clock>>
     ELSE /\ state' = [state EXCEPT !.last_frame = rval[t],
                                    !.last_frame_time = Some(clock + 1)]
          /\ clock' = clock + 1
          /\ Goto(t, "v197")
          /\ UNCHANGED ctx
  /\ rval' = [rval EXCEPT ![t] = Absent]
  /\ UNCHANGED <<running, command_socket, video_socket, sock, netVars, nsess,
                 result, call, cmdLocals, rsock, rlen, rdata, rret, frame_length,
                 history>>
\* ------------------------------------------------------- the bridge's life
\* bridge = RobotBridge(): nothing connected, no thread started.  The robot
\* sends nothing on the transports of this specification: a read times out,
\* fails, or finds the stream ended.
Init ==
  /\ running = FALSE
  /\ command_socket = None
  /\ video_socket = None
  /\ state = RobotState
  /\ sock = [s \in SockIds |-> "unborn"]
  /\ wire = [s \in SockIds |-> <<>>]
  /\ rpos = [s \in SockIds |-> 0]
  /\ nsess = 0
  /\ clock = 0
  /\ pc = [t \in Threads |-> IF t = Api THEN "idle" ELSE "unstarted"]
  /\ ctx = [t \in Threads |-> ""]
  /\ result = [t \in Threads |-> <<"", "none">>]
  /\ call = "none"
  /\ arg = [t \in Threads |-> <<>>]
  /\ buffer = [t \in Threads |-> <<>>]
  /\ line = [t \in Threads |-> <<>>]
  /\ rsock = [t \in Threads |-> None]
  /\ rlen = [t \in Threads |-> 0]
  /\ rdata = [t \in Threads |-> <<>>]
  /\ rret = [t \in Threads |-> ""]
  /\ rval = [t \in Threads |-> Absent]
  /\ frame_length = [t \in Threads |-> 0]
  /\ openFailed = FALSE
  /\ quiet = FALSE
  /\ active = {}
  /\ handled = [t \in Threads |-> <<>>]

\* a step of a call of disconnect(), by whichever thread is in one
DisconnectStep(t) ==
  \/ D91(t) \/ D92(t) \/ D94(t) \/ D97(t) \/ D98(t)
  \/ D100(t) \/ D103(t) \/ D104(t) \/ D105(t) \/ D106(t)

\* a step of a call of connect(), past the disconnect() of line 65
ConnectStep ==
  \/ C66 \/ C70 \/ C71 \/ C72 \/ C73 \/ C75 \/ C76
  \/ C80 \/ C82 \/ C86

SendStep(t) == S111(t) \/ S111b(t) \/ S114(t) \/ S115(t)

PowerStep(t) == P119(t) \/ P121(t)

\* _command_loop and _video_loop as far as they get without data
CommandIdleStep(t) == R130(t) \/ R131(t) \/ R134(t) \/ R139(t)
VideoIdleStep(t) ==
  V197(t) \/ V198(t) \/ V200(t) \/ X184(t) \/ X186(t) \/ X191(t) \/ V201(t)

\* a request arrives
Request ==
  \/ \E ip \in Addresses : ApiConnect(ip)
  \/ ApiDisconnect
  \/ \E command \in ApiCommands : ApiSend(command)

\* a step of a thread that is under way
Continue(t) ==
  \/ DisconnectStep(t)
  \/ SendStep(t)
  \/ PowerStep(t)
  \/ CommandIdleStep(t)
  \/ VideoIdleStep(t)
  \/ Terminate(t)

\* a step of the request thread inside connect(), or its answer
ApiStep == ConnectStep \/ Respond

Next == Request \/ ApiStep \/ \E t \in Threads : Continue(t)

Spec == Init /\ [][Next]_vars

\* Threads are operating-system threads: one that can go on does go on.
\* Nothing obliges a client to send a request.
FairSpec == Spec /\ WF_vars(ApiStep) /\ \A t \in Threads : WF_vars(Continue(t))

\* ------------------------------------------------- one session, with data
\* The first connect() has succeeded and been answered; the robot sends
\* cmdWire on the command transport and vidWire on the video transport.
Established(cmdWire, vidWire) ==
  /\ running = TRUE
  /\ command_socket = CmdSock(1)
  /\ video_socket = VidSock(1)
  /\ state = [RobotState EXCEPT !.connected = TRUE,
                                !.ip = Some(CHOOSE ip \in Addresses : TRUE)]
  /\ sock = [s \in SockIds |-> IF s \in {CmdSock(1), VidSock(1)} THEN "connected"
                               ELSE "unborn"]
  /\ wire = [s \in SockIds |-> IF s = CmdSock(1) THEN cmdWire
                               ELSE IF s = VidSock(1) THEN vidWire ELSE <<>>]
  /\ rpos = [s \in SockIds |-> 0]
  /\ nsess = 1
  /\ clock = 0
  /\ pc = [t \in Threads |-> IF t = Api THEN "idle"
                             ELSE IF t = CmdTask(1) THEN "r130"
                             ELSE IF t = VidTask(1) THEN "v197"
                             ELSE IF t = PwrTask(1) THEN "p119" ELSE "unstarted"]
  /\ ctx = [t \in Threads |-> ""]
  /\ result = [t \in Threads |-> <<"", "none">>]
  /\ call = "none"
  /\ arg = [t \in Threads |-> <<>>]
  /\ buffer = [t \in Threads |-> <<>>]
  /\ line = [t \in Threads |-> <<>>]
  /\ rsock = [t \in Threads |-> None]
  /\ rlen = [t \in Threads |-> 0]
  /\ rdata = [t \in Threads |-> <<>>]
  /\ rret = [t \in Threads |-> ""]
  /\ rval = [t \in Threads |-> Absent]
  /\ frame_length = [t \in Threads |-> 0]
  /\ openFailed = FALSE
  /\ quiet = FALSE
  /\ active = {}
  /\ handled = [t \in Threads |-> <<>>]

\* One session and its three threads, from the moment connect() has returned:
\* requests send commands and disconnect, nobody connects again.
SessionInit == Established(<<>>, <<>>)

SessionThreads == {Api, CmdTask(1), VidTask(1), PwrTask(1)}

SessionStep(t) ==
  \/ DisconnectStep(t)
  \/ SendStep(t)
  \/ PowerStep(t)
  \/ CommandIdleStep(t)
  \/ VideoIdleStep(t)
  \/ Terminate(t)

SessionNext ==
  \/ ApiDisconnect
  \/ \E command \in ApiCommands : ApiSend(command)
  \/ Respond
  \/ \E t \in SessionThreads : SessionStep(t)

\* Threads are operating-system threads: one that can go on does go on.
SessionSpec ==
  /\ SessionInit
  /\ [][SessionNext]_vars
  /\ WF_vars(Respond)
  /\ \A t \in SessionThreads : WF_vars(SessionStep(t))

\* the video stream: frames of a 4-byte little-endian length and that many
\* bytes, the last one possibly cut short
PayloadBytes == {7, 9}
Header(n) == <<n % ByteBase, (n \div ByteBase) % ByteBase, 0, 0>>
Frames ==
  UNION {{Header(n) \o p : p \in [1 .. n -> PayloadBytes]} : n \in 0 .. MaxFrameLen}
VideoWires ==
  {SubSeq(f \o g, 1, Min(MaxWire, Len(f \o g))) : f \in Frames, g \in Frames}

\* _video_loop on a stream of frames, while a request may disconnect
FrameInit == \E w \in VideoWires : Established(<<>>, w)

VideoStep(t) ==
  \/ V197(t) \/ V198(t) \/ V200(t) \/ X184(t) \/ X186(t) \/ X191(t) \/ V201(t)
  \/ V206(t) \/ V207(t)

FrameNext ==
  \/ ApiDisconnect
  \/ Respond
  \/ DisconnectStep(Api)
  \/ VideoStep(VidTask(1))
  \/ DisconnectStep(VidTask(1))
  \/ Terminate(VidTask(1))

FrameSpec == FrameInit /\ [][FrameNext]_vars

\* the status lines the robot sends
PowerLines == {<<"CMD_POWER", "#", ToString(v)>> : v \in Numbers}
OtherLines ==
  {<<"CMD_POWER", "#", "notanumber">>, <<"CMD_POWER">>,
   <<"CMD_SONIC", "#", "2350">>, <<"CMD_SONIC", "#", "notanumber">>,
   <<"CMD_LIGHT", "#", "100", "#", "2350">>, <<"CMD_LIGHT", "#", "100">>,
   <<"CMD_LIGHT", "#", "100", "#", "x">>, <<"CMD_MODE", "#", "100">>,
   <<" ", "CMD_POWER", "#", "800", " ">>, <<" ">>}
CommandWires ==
  {l \o <<"\n">> : l \in PowerLines \cup OtherLines}
  \cup {k \o <<"\n">> \o l \o <<"\n">> : k \in OtherLines, l \in {<<"CMD_POWER", "#", "5000">>}}
  \cup {<<"CMD_POWER", "#", "5000", "\n", "CMD_POWER", "#", "-500", "\n">>}

\* _command_loop on a stream of status lines
CommandInit == \E w \in CommandWires : Established(w, <<>>)

CommandStep(t) ==
  \/ R130(t) \/ R131(t) \/ R134(t) \/ R139(t) \/ R142(t) \/ H153(t) \/ H154(t)

CommandNext ==
  \/ CommandStep(CmdTask(1))
  \/ DisconnectStep(CmdTask(1))
  \/ Terminate(CmdTask(1))

CommandSpec == CommandInit /\ [][CommandNext]_vars

\* streams of status lines of several kinds, the last segment possibly
\* without its newline
StatusLines ==
  {<<"CMD_LIGHT", "#", "100", "#", "2350">>, <<"CMD_LIGHT", "#", "0", "#", "5000">>,
   <<"CMD_LIGHT", "#", "800">>, <<"CMD_LIGHT", "#", "800", "#", "x">>,
   <<"CMD_SONIC", "#", "2350">>, <<"CMD_SONIC", "#", "notanumber">>,
   <<"CMD_POWER", "#", "notanumber">>,
   <<" ">>, <<"CMD_MODE", "#", "\\xc3", "\\xa9">>}
Tails == {<<>>, <<"CMD_SONIC", "#", "100">>}
RECURSIVE Streams(_)
Streams(n) ==
  IF n = 0 THEN {<<>>}
  ELSE {l \o <<"\n">> \o w : l \in StatusLines, w \in Streams(n - 1)}
StatusWires == {w \o tail : w \in Streams(MaxLines), tail \in Tails}

\* _command_loop on a stream of several status lines
StatusInit == \E w \in StatusWires : Established(w, <<>>)

StatusSpec == StatusInit /\ [][CommandNext]_vars

\* a session that has received status lines and a frame and sent commands,
\* then torn down by requests alone: from the first disconnect request on,
\* the background threads are not scheduled
TeardownCommandWires ==
  {<<>>, <<"CMD_POWER", "#", "800", "\n">>,
   <<"CMD_LIGHT", "#", "100", "#", "2350", "\n", "CMD_SONIC", "#", "2350", "\n">>}
TeardownVideoWires == {<<>>, Header(1) \o <<7>>}

TeardownInit ==
  \/ Init
  \/ \E w \in TeardownCommandWires, v \in TeardownVideoWires : Established(w, v)

Calm == ~quiet /\ call # "disconnect"

TeardownNext ==
  \/ ApiDisconnect
  \/ DisconnectStep(Api)
  \/ Respond
  \/ Calm /\ \E command \in ApiCommands : ApiSend(command)
  \/ Calm /\ SendStep(Api)
  \/ Calm /\ CommandStep(CmdTask(1))
  \/ Calm /\ VideoStep(VidTask(1))

TeardownSpec == TeardownInit /\ [][TeardownNext]_vars

\* get_state(): the snapshot taken under the lock
GetState(st) ==
  [connected |-> st.connected, ip |-> st.ip, power_percent |-> st.power_percent,
   ultrasonic_cm |-> st.ultrasonic_cm, light_left_v |-> st.light_left_v,
   light_right_v |-> st.light_right_v, last_command |-> st.last_command,
   last_status |-> st.last_status]

\* ================================================================== claims
Born(s) == sock[s] # "unborn"
Started(t) == pc[t] # "unstarted"

\* C1: in every reachable state, connected is true only if both sockets are
\* set and open and the running flag is true.
C1_ConnectedOnlyWhileOpenAndRunning ==
  state.connected =>
    /\ command_socket # None
    /\ video_socket # None
    /\ sock[command_socket] = "connected"
    /\ sock[video_socket] = "connected"
    /\ running

\* the command reader of session s passes its `while self.running` check
\* (line 130) or reads from a transport (line 134)
C2_StaleReaderActs(s) ==
  \/ pc[CmdTask(s)] = "r130" /\ pc'[CmdTask(s)] = "r131"
  \/ pc[CmdTask(s)] = "r134" /\ pc'[CmdTask(s)] # "r134" /\ command_socket # None

\* C2: once a later session's command reader has been started, the command
\* reader of an earlier session never again passes its `while self.running`
\* check and never again reads from a transport.
C2_NoTwoCommandReaders ==
  [][\A s1, s2 \in Sessions :
       (s1 < s2 /\ Started(CmdTask(s2))) => ~C2_StaleReaderActs(s1)]_vars

\* C3: every call of disconnect(), overlapping another or not, completes
\* without raising; and when the request thread's disconnect() has returned,
\* both sockets are closed and cleared, running is false and connected is false.
C3_DisconnectNeverRaises ==
  /\ \A t \in Threads : result[t][1] = "disconnect" => result[t][2] = "ok"
  /\ (pc[Api] = "respond" /\ call = "disconnect") =>
       /\ command_socket = None
       /\ video_socket = None
       /\ \A s \in SockIds : Born(s) => sock[s] = "closed"
       /\ ~running
       /\ ~state.connected

\* a send_command that makes its check of line 111 after a disconnect() has
\* returned fails there with RuntimeError
C4_SendRefused(t) ==
  (quiet /\ pc[t] = "s111" /\ pc'[t] # "s111") =>
     /\ pc'[t] = (IF t = Api THEN "respond" ELSE "p119")
     /\ t = Api => result'[t] = <<"send_command", "RuntimeError">>

\* C4: after a disconnect() has returned and while no connect() has been
\* running since, connected is false and both socket attributes are cleared,
\* and a send_command that makes its check then fails with the not-connected
\* error (RuntimeError).
C4_AfterDisconnect ==
  /\ [](quiet => (~state.connected /\ command_socket = None /\ video_socket = None))
  /\ [][\A t \in Threads : C4_SendRefused(t)]_vars

\* C5: every send_command ends in success, RuntimeError or OSError, so that
\* no send ends the power poller.
C5_SendOutcomes ==
  /\ \A t \in Threads :
       result[t][1] = "send_command" => result[t][2] \in {"ok", "RuntimeError", "OSError"}
  /\ \A s \in Sessions :
       pc[PwrTask(s)] = "ended" => result[PwrTask(s)] = <<"_power_loop", "ok">>

\* a reader has just read zero bytes (lines 139, 191)
C6_SawEof == \E t \in Tasks : pc[t] \in {"r139", "x191"}

\* C6: a reader that has read zero bytes (end of stream) leads to connected
\* being false, whatever the requests.
C6_EofLeadsToDisconnected == C6_SawEof ~> ~state.connected

\* C6's case: a reader of a connected session has just read end of stream.
C6_Witness == C6_SawEof /\ state.connected /\ running

\* C7: when a transport fails to open during connect(), connected and running
\* stay false and no thread of the session is started; connect() ends with the
\* connection failure (OSError), both sockets closed and both attributes cleared.
C7_FailedConnectRollsBack ==
  openFailed =>
    /\ ~state.connected
    /\ ~running
    /\ \A k \in {"cmd", "vid", "pwr"} : ~Started(<<nsess, k>>)
    /\ pc[Api] = "respond" =>
         /\ result[Api] = <<"connect", "OSError">>
         /\ command_socket = None
         /\ video_socket = None
         /\ sock[CmdSock(nsess)] = "closed"
         /\ sock[VidSock(nsess)] = "closed"

\* the payloads of the complete frames of the stream w
RECURSIVE FramesOf(_)
FramesOf(w) ==
  IF Len(w) < HeaderSize THEN {}
  ELSE LET n == Unpack(SubSeq(w, 1, HeaderSize))
       IN IF Len(w) < HeaderSize + n THEN {}
          ELSE (IF n > 0 THEN {SubSeq(w, HeaderSize + 1, HeaderSize + n)} ELSE {})
               \cup FramesOf(SubSeq(w, HeaderSize + n + 1, Len(w)))

\* C8: every value stored in lastFrame is the complete payload of a frame of
\* the video stream: the N bytes that follow a header of value N.
C8_LastFrameIsComplete ==
  state.last_frame # Absent => Value(state.last_frame) \in FramesOf(wire[VidSock(1)])

\* clamp(((v - 7) / 1.40) * 100, 0, 100) for v in hundredths, as a number of
\* 140ths: the exact value is ClampedPercent(v) / 140
ClampedPercent(v) ==
  LET num == 100 * (v - 700)
  IN IF num >= 100 * 140 THEN 100 * 140 ELSE IF num <= 0 THEN 0 ELSE num

\* the integer nearest to ClampedPercent(v) / 140 (never half-way on the grid)
RoundedPercent(v) == (2 * ClampedPercent(v) + 140) \div 280

IsPowerLine(l) ==
  LET parts == Split(l, "#")
  IN parts[1] = <<"CMD_POWER">> /\ Len(parts) > 1 /\ Float(parts[2]) # Absent

VoltageOf(l) == Value(Float(Split(l, "#")[2]))

C10_PercentInRange ==
  state.power_percent = Absent \/ Value(state.power_percent) \in 0 .. 100

\* C10's case: a CMD_POWER line far above 8.4 V (50 V), then one far below
\* 7 V (-5 V), have been handled.
C10_Witness ==
  \E t \in Tasks :
    /\ pc[t] = "r142"
    /\ line[t] = <<"CMD_POWER", "#", "-500">>
    /\ state.power_percent = Some(0)
    /\ rpos[CmdSock(1)] = Len(wire[CmdSock(1)])
    /\ Len(wire[CmdSock(1)]) = 8

\* the non-empty trimmed newline-terminated segments of the text x, in order
RECURSIVE Trimmed(_)
Trimmed(pieces) ==
  IF Len(pieces) <= 1 THEN <<>>
  ELSE (IF Strip(Head(pieces)) = <<>> THEN <<>> ELSE <<Strip(Head(pieces))>>)
       \o Trimmed(Tail(pieces))

Segments(x) == Trimmed(Split(x, "\n"))

\* the text after the last newline of x
Trailing(x) == LET pieces == Split(x, "\n") IN pieces[Len(pieces)]

\* a CMD_LIGHT line with two fields
IsLightLine(l) ==
  LET parts == Split(l, "#") IN parts[1] = <<"CMD_LIGHT">> /\ Len(parts) > 2

LightParses(l) ==
  LET parts == Split(l, "#") IN Float(parts[2]) # Absent /\ Float(parts[3]) # Absent

LightPair(l) == LET parts == Split(l, "#") IN <<Float(parts[2]), Float(parts[3])>>

\* a line that names the light pair but is short of a field
IsShortLightLine(l) ==
  LET parts == Split(l, "#") IN parts[1] = <<"CMD_LIGHT">> /\ Len(parts) <= 2

\* the step in which _handle_status_line finishes the line of thread t
C11_Handles(t) == pc[t] = "h154" /\ pc'[t] = "r142"

\* C11: every snapshot of get_state holds a light pair that is absent or
\* came from one CMD_LIGHT line of the stream; a CMD_LIGHT line with two
\* parseable fields sets both in one step, and one with a missing or
\* unparseable field changes neither.
C11_LightPairTogether ==
  /\ [](LET g == GetState(state)
             lines == Segments(Decode(wire[CmdSock(1)]))
         IN \/ g.light_left_v = Absent /\ g.light_right_v = Absent
            \/ \E i \in 1 .. Len(lines) :
                 /\ IsLightLine(lines[i]) /\ LightParses(lines[i])
                 /\ <<g.light_left_v, g.light_right_v>> = LightPair(lines[i]))
  /\ [][\A t \in Tasks :
         C11_Handles(t) =>
           LET before == <<state.light_left_v, state.light_right_v>>
               after == <<state'.light_left_v, state'.light_right_v>>
           IN IF IsLightLine(line[t]) /\ LightParses(line[t])
              THEN after = LightPair(line[t])
              ELSE after = before]_vars

\* C11's case: a full light line, then one whose right field does not parse,
\* have been handled, and the pair is still that of the first.
C11_Witness ==
  \E t \in Tasks :
    /\ pc[t] = "r142"
    /\ handled[t] = <<(<<"CMD_LIGHT", "#", "100", "#", "2350">>),
                      (<<"CMD_LIGHT", "#", "800", "#", "x">>)>>
    /\ state.light_left_v = Some(100)
    /\ state.light_right_v = Some(2350)

\* a line whose tag names a sensor and has its fields, one of which is no number
FailsToParse(l) ==
  LET parts == Split(l, "#")
  IN \/ /\ parts[1] \in {<<"CMD_SONIC">>, <<"CMD_POWER">>}
        /\ Len(parts) > 1 /\ Float(parts[2]) = Absent
     \/ /\ parts[1] = <<"CMD_LIGHT">>
        /\ Len(parts) > 2 /\ (Float(parts[2]) = Absent \/ Float(parts[3]) = Absent)

\* C12: a status line whose numeric field does not parse is recorded as
\* lastStatus, changes no other field, and the reader goes on with the rest
\* of its buffer.
C12_ParseFailureIsNotFatal ==
  [][\A t \in Tasks :
       (pc[t] = "h154" /\ pc'[t] # "h154" /\ FailsToParse(line[t])) =>
          /\ state.last_status = Some(line[t])
          /\ state' = state
          /\ pc'[t] = "r142"
          /\ result'[t] = result[t]]_vars

\* C12's case: after a distance was stored, CMD_SONIC#notanumber has been
\* handled; it is the status, the distance is kept, and the loop is at line 142.
C12_Witness ==
  \E t \in Tasks :
    /\ pc[t] = "r142"
    /\ handled[t] = <<(<<"CMD_SONIC", "#", "2350">>),
                      (<<"CMD_SONIC", "#", "notanumber">>)>>
    /\ state.last_status = Some(<<"CMD_SONIC", "#", "notanumber">>)
    /\ state.ultrasonic_cm = Some(2350)

\* C13: lastFrame and lastFrameTime are both absent or both present, and a
\* step that writes either writes both: the frame with the time of that write.
C13_FrameAndTimeTogether ==
  /\ []((state.last_frame = Absent) <=> (state.last_frame_time = Absent))
  /\ [][(state'.last_frame # state.last_frame
           \/ state'.last_frame_time # state.last_frame_time) =>
          /\ state'.last_frame # Absent
          /\ clock' = clock + 1
          /\ state'.last_frame_time = Some(clock')]_vars

\* C13's case: a frame has been stored, with its time.
C13_Witness ==
  /\ state.last_frame # Absent
  /\ state.last_frame_time = Some(clock)
  /\ pc[VidTask(1)] = "v197"

\* C16: what _recv_exact(sock, N) hands back to _video_loop is a failure or
\* exactly N bytes, never a shorter non-empty string; so no header of fewer
\* than 4 bytes reaches struct.unpack and ends the video loop without its
\* disconnect().
C16_RecvExactNeverShort ==
  \A t \in Tasks :
    /\ (pc[t] = "v201" /\ rval[t] # Absent /\ Value(rval[t]) # <<>>) =>
         Len(Value(rval[t])) = HeaderSize
    /\ (pc[t] = "v207" /\ rval[t] # Absent /\ Value(rval[t]) # <<>>) =>
         Len(Value(rval[t])) = frame_length[t]
    /\ result[t] # <<"_video_loop", "struct.error">>

\* the poller of session s issues a poll: it leaves line 121 for send_command
C15_Polls(s) == pc[PwrTask(s)] = "p121" /\ pc'[PwrTask(s)] = "s111"

\* C15: a poller started before a disconnect() cleared the stop flag issues no
\* further poll, also when a later connect() has succeeded meanwhile: once
\* the pollers of a later session are started, no poller of an earlier session
\* polls, and no two pollers are ever inside a poll.
C15_StalePollerExits ==
  /\ [][\A s1, s2 \in Sessions :
         (s1 < s2 /\ Started(PwrTask(s2))) => ~C15_Polls(s1)]_vars
  /\ [](\A s1, s2 \in Sessions :
         (s1 # s2) => ~(pc[PwrTask(s1)] \in {"s111", "s111b", "s114", "s115"}
                        /\ pc[PwrTask(s2)] \in {"s111", "s111b", "s114", "s115"}))

\* a step of send_command by thread t that ends it with an error
C17_SendFails(t) ==
  /\ pc[t] \in {"s111", "s111b", "s114"}
  /\ pc'[t] \notin {"s111", "s111b", "s114", "s115"}

\* C17: lastCommand changes only in the step that follows a successful write
\* (lines 115-116) and is then the trimmed text of that command; a step of
\* send_command before it, failing or not, changes no field of RobotState.
C17_LastCommandOnlyOnSuccess ==
  [][/\ (state'.last_command # state.last_command) =>
          \E t \in Threads :
            /\ pc[t] = "s115" /\ pc'[t] # "s115"
            /\ state'.last_command = Some(Strip(arg[t]))
            /\ state' = [state EXCEPT !.last_command = Some(Strip(arg[t]))]
     /\ \A t \in Threads :
          (pc[t] \in {"s111", "s111b", "s114"} /\ pc'[t] # pc[t]) => state' = state]_vars

\* C17's case: a command with blanks around it was sent and recorded
\* trimmed, and a later send has failed.
C17_Witness ==
  /\ state.last_command = Some(<<"CMD_MOTOR", "#", "1500">>)
  /\ pc[Api] = "respond"
  /\ result[Api][1] = "send_command"
  /\ result[Api][2] \in {"RuntimeError", "OSError"}

\* a task of session s takes a step of its disconnect()
C20_Disconnects(s) ==
  \E k \in {"cmd", "vid", "pwr"} :
    /\ pc[<<s, k>>] \in {"d91", "d92", "d94", "d97", "d98", "d100", "d103", "d104",
                         "d105", "d106"}
    /\ pc'[<<s, k>>] # pc[<<s, k>>]

\* C20: the disconnect() of a reader of an earlier session leaves a later
\* session alone: it closes or shuts down no socket of the later session and,
\* once the later session is established, neither clears running nor sets
\* connected to false.
C20_StaleReaderLeavesLaterSession ==
  [][\A s1, s2 \in Sessions :
       (s1 < s2 /\ Born(CmdSock(s2)) /\ C20_Disconnects(s1)) =>
          /\ sock'[CmdSock(s2)] = sock[CmdSock(s2)]
          /\ sock'[VidSock(s2)] = sock[VidSock(s2)]
          /\ Started(CmdTask(s2)) => (running' = running
                                       /\ state'.connected = state.connected)]_vars

\* C14: once a disconnect() has returned, a further disconnect() with nothing
\* else running completes without error and changes nothing: every step of it
\* leaves the bridge, its sockets and RobotState as the first call left them.
C14_DisconnectIsIdempotent ==
  [][quiet => /\ running' = running
              /\ command_socket' = command_socket
              /\ video_socket' = video_socket
              /\ sock' = sock
              /\ state' = state
              /\ result'[Api][2] \in {"none", "ok"}]_vars

\* C14's case: a second disconnect() is at its last step.
C14_Witness == quiet /\ pc[Api] = "d106" /\ state.ip # Absent

\* the labels of disconnect()
DisconnectLabels ==
  {"d91", "d92", "d94", "d97", "d98", "d100", "d103", "d104", "d105", "d106"}

\* C18: a step of disconnect() changes no field of RobotState but connected
\* and lastStatus, and those only in its critical section, after which
\* connected is false and lastStatus is the disconnected marker.
C18_DisconnectKeepsLastKnownValues ==
  [][\A t \in Threads :
       (pc[t] \in DisconnectLabels /\ pc'[t] # pc[t]) =>
          /\ \A f \in {"ip", "power_percent", "ultrasonic_cm", "light_left_v",
                        "light_right_v", "last_command", "last_frame",
                        "last_frame_time"} : state'[f] = state[f]
          /\ IF pc[t] = "d106"
             THEN ~state'.connected /\ state'.last_status = Some(<<"Disconnected">>)
             ELSE state' = state]_vars

\* C18's case: a disconnect() has returned after a session that stored a
\* sensor value and a sent command, which are still there.
C18_Witness ==
  /\ pc[Api] = "respond" /\ call = "disconnect"
  /\ state.last_status = Some(<<"Disconnected">>)
  /\ state.last_command # Absent
  /\ state.power_percent # Absent \/ state.ultrasonic_cm # Absent

\* C19: whenever the command reader is between reads, the lines it has passed
\* to _handle_status_line are, in order and once each, the non-empty trimmed
\* newline-terminated segments of the stream received so far, decoded as a
\* whole, and its buffer is the segment after the last newline: however the
\* stream was split into reads.
C19_ChunkingIndependent ==
  LET t == CmdTask(1)
      x == Decode(SubSeq(wire[CmdSock(1)], 1, rpos[CmdSock(1)]))
  IN pc[t] \in {"r130", "r131", "r134", "r139"} =>
       /\ handled[t] = Segments(x)
       /\ buffer[t] = Trailing(x)
====
